---- MODULE Spec2Model ----
(***************************************************************************)
(* IPS Stock Screener (src/app.py): the threshold grading function         *)
(* get_ips_grade, the fetch routine get_stock_data, the request handler    *)
(* main, and the continuous formula compute_ips of the specification.      *)
(*                                                                         *)
(* Python values are records [k, v]: k is the run-time type ("none",       *)
(* "num", "bool", "int", "str", or "missing" for a key that is not in the  *)
(* mapping) and v the magnitude.  GPM, ROIC and Revenue_Growth are held in *)
(* hundredths (0.40 is 40); Forward_PE and CCC in whole units.             *)
(***************************************************************************)
EXTENDS Integers, Sequences, FiniteSets, TLC

VARIABLES metrics, result, calls,
          stock_metrics, display, main_result, threw, last_resp,
          ips_in, ips_out

gradeVars == <<metrics, result, calls>>
mainVars == <<stock_metrics, display, main_result, threw, last_resp>>
ipsVars == <<ips_in, ips_out>>
vars == <<metrics, result, calls, stock_metrics, display, main_result, threw, last_resp,
          ips_in, ips_out>>

\* Sampled numeric inputs lie within Spread of each threshold.
Spread == 1

\* A record is graded at most MaxCalls times.
MaxCalls == 2

----------------------------------------------------------------------------
\* Python values

None == [k |-> "none", v |-> 0]
Missing == [k |-> "missing", v |-> 0]
Str == [k |-> "str", v |-> 0]
Num(n) == [k |-> "num", v |-> n]
Bool(b) == [k |-> "bool", v |-> IF b THEN 1 ELSE 0]
IntV(n) == [k |-> "int", v |-> n]

Fields == <<"GPM", "ROIC", "Revenue_Growth", "EPS_Consistency", "Forward_PE", "CCC">>
FieldSet == {Fields[i] : i \in 1..Len(Fields)}
NumericFields == FieldSet \ {"EPS_Consistency"}

\* The right-hand side of each comparison, in the field's unit.
Threshold(f) ==
  CASE f = "GPM" -> 40
    [] f = "ROIC" -> 10
    [] f = "Revenue_Growth" -> 10
    [] f = "Forward_PE" -> 20
    [] f = "CCC" -> 30
    [] OTHER -> 0

\* bool and int operands compare as the numbers 0 and 1.
Unit(f) == IF f \in {"GPM", "ROIC", "Revenue_Growth"} THEN 100 ELSE 1
NumVal(f, x) == IF x.k = "num" THEN x.v ELSE x.v * Unit(f)

----------------------------------------------------------------------------
\* get_ips_grade

PresentAlways(x) == TRUE
\* `metrics[f] is not None`
Present(x) == x.k # "none"

IsTrueTruthy(x) == (x.k \in {"bool", "int"} /\ x.v # 0) \/ x.k = "str"
\* `metrics['EPS_Consistency'] is True`: identity with the boolean True
IsTrue(x) == x.k = "bool" /\ x.v = 1

CondNonStrict(f, x) ==
  CASE f \in {"GPM", "ROIC", "Revenue_Growth"} -> NumVal(f, x) >= Threshold(f)
    [] f = "EPS_Consistency" -> IsTrue(x)
    [] OTHER -> NumVal(f, x) <= Threshold(f)
\* The second conjunct of each `if`.
Cond(f, x) ==
  CASE f \in {"GPM", "ROIC", "Revenue_Growth"} -> NumVal(f, x) > Threshold(f)
    [] f = "EPS_Consistency" -> IsTrue(x)
    [] OTHER -> NumVal(f, x) < Threshold(f)

\* Ordering a str against a number raises TypeError; `is True` never raises.
CondRaises(f, x) == f \in NumericFields /\ x.k = "str"

PassText(f) ==
  CASE f = "GPM" -> "GPM > 40%"
    [] f = "ROIC" -> "ROIC > 10%"
    [] f = "Revenue_Growth" -> "Revenue Growth > 10%"
    [] f = "EPS_Consistency" -> "Consistent EPS beats"
    [] f = "Forward_PE" -> "Forward PE < 20"
    [] OTHER -> "CCC < 30 days"
FailText(f) ==
  CASE f = "GPM" -> "GPM <= 40%"
    [] f = "ROIC" -> "ROIC <= 10%"
    [] f = "Revenue_Growth" -> "Revenue Growth <= 10%"
    [] f = "EPS_Consistency" -> "Did not consistently beat EPS estimates"
    [] f = "Forward_PE" -> "Forward PE >= 20"
    [] OTHER -> "CCC >= 30 days"
UnknownText(f) ==
  CASE f = "GPM" -> "GPM data not found"
    [] f = "ROIC" -> "ROIC data not found"
    [] f = "Revenue_Growth" -> "Revenue Growth data not found"
    [] f = "EPS_Consistency" -> "EPS consistency data not found"
    [] f = "Forward_PE" -> "Forward PE data not found"
    [] OTHER -> "CCC data not found"

\* A reason string: its leading mark (check, cross, warning) and its text.
NoReason == [mark |-> "unset", text |-> ""]
PassReason(f) == [mark |-> "check", text |-> PassText(f)]

ElseReasonSwapped(f, x) ==
  IF x.k # "none" THEN [mark |-> "warning", text |-> UnknownText(f)]
  ELSE [mark |-> "cross", text |-> FailText(f)]
\* The conditional expression of each else branch.
ElseReason(f, x) ==
  IF x.k # "none" THEN [mark |-> "cross", text |-> FailText(f)]
  ELSE [mark |-> "warning", text |-> UnknownText(f)]

AddPointAssign(score) == 1
\* `score += 1`
AddPoint(score) == score + 1

GradeOfStrictA(score) ==
  IF score > 5 THEN "A (Strong Buy)"
  ELSE IF score >= 3 THEN "B (Consider Buy)"
  ELSE IF score >= 1 THEN "C (Hold)"
  ELSE "D (Sell)"
\* The if/elif chain that assigns the grade.
GradeOf(score) ==
  IF score >= 5 THEN "A (Strong Buy)"
  ELSE IF score >= 3 THEN "B (Consider Buy)"
  ELSE IF score >= 1 THEN "C (Hold)"
  ELSE "D (Sell)"

NoReasons == [f \in FieldSet |-> NoReason]

\* One if/else block applied to the running (exc, score, reasons).
Criterion(f, x, acc) ==
  IF x.k = "missing" THEN [acc EXCEPT !.exc = "KeyError"]
  ELSE IF Present(x) /\ CondRaises(f, x) THEN [acc EXCEPT !.exc = "TypeError"]
  ELSE IF Present(x) /\ Cond(f, x)
    THEN [acc EXCEPT !.score = AddPoint(acc.score), !.reasons[f] = PassReason(f)]
    ELSE [acc EXCEPT !.reasons[f] = ElseReason(f, x)]

RECURSIVE Blocks(_, _, _)
\* The six blocks in source order; an exception abandons the rest.
Blocks(i, m, acc) ==
  IF i > Len(Fields) \/ acc.exc # "none" THEN acc
  ELSE Blocks(i + 1, m, Criterion(Fields[i], m[Fields[i]], acc))

\* What a call produces: the returned (grade, reasons, score), or the
\* exception that leaves the call, in which case nothing is returned.
get_ips_grade(m) ==
  LET acc == Blocks(1, m, [exc |-> "none", score |-> 0, reasons |-> NoReasons])
  IN IF acc.exc # "none"
       THEN [exc |-> acc.exc, grade |-> "", reasons |-> NoReasons, score |-> 0]
       ELSE [exc |-> "none", grade |-> GradeOf(acc.score),
             reasons |-> acc.reasons, score |-> acc.score]

NoResult == [exc |-> "unset", grade |-> "", reasons |-> NoReasons, score |-> 0]

NumericSamples(f) ==
  {None, Missing, Str} \cup {Num(n) : n \in (Threshold(f) - Spread)..(Threshold(f) + Spread)}
EPSSamples == {None, Missing, Str, Bool(TRUE), Bool(FALSE), IntV(1), IntV(0)}
Samples(f) == IF f = "EPS_Consistency" THEN EPSSamples ELSE NumericSamples(f)

MetricsRecords ==
  [GPM : Samples("GPM"), ROIC : Samples("ROIC"), Revenue_Growth : Samples("Revenue_Growth"),
   EPS_Consistency : Samples("EPS_Consistency"), Forward_PE : Samples("Forward_PE"),
   CCC : Samples("CCC")]

----------------------------------------------------------------------------
\* get_stock_data

NoError == [k |-> "none", parts |-> <<>>]

ErrorMessageBare(symbol, e) == [k |-> "str", parts |-> <<e>>]
\* f"An error occurred while fetching data for {symbol}: {e}"
ErrorMessage(symbol, e) ==
  [k |-> "str", parts |-> <<"An error occurred while fetching data for ", symbol, ": ", e>>]

\* Truth value of the 'error' entry: None and the empty string are false.
Truthy(err) == err.k = "str" /\ \E i \in 1..Len(err.parts) : err.parts[i] # ""

\* The dictionary literal that opens get_stock_data.
InitialMetrics ==
  [GPM |-> None, ROIC |-> None, Revenue_Growth |-> None, EPS_Consistency |-> None,
   Forward_PE |-> None, CCC |-> None, error |-> NoError]

\* What one endpoint does in a request: o = "throw" (the request, .json() or
\* an operation on the payload raises e), "skip" (the guard of the block is
\* false) or "ok" (the guard is true, a and b are the values read).
Ok(a, b) == [o |-> "ok", e |-> "", a |-> a, b |-> b]
Skip == [o |-> "skip", e |-> "", a |-> None, b |-> None]
Throw(e) == [o |-> "throw", e |-> e, a |-> None, b |-> None]

Continue(m) == [threw |-> FALSE, e |-> "", m |-> m]
Raise(e, m) == [threw |-> TRUE, e |-> e, m |-> m]

\* Ratios block: grossProfitMargin and roic of the latest quarter.
RatiosStep(r, m) ==
  IF r.o = "throw" THEN Raise(r.e, m)
  ELSE IF r.o = "ok" THEN Continue([m EXCEPT !.GPM = r.a, !.ROIC = r.b])
  ELSE Continue(m)

\* Income block: a is the current revenue, b the revenue a year ago.
IncomeStep(r, m) ==
  IF r.o = "throw" THEN Raise(r.e, m)
  ELSE IF r.o = "ok" /\ r.b.k = "num" /\ r.b.v > 0
    THEN IF r.a.k # "num" THEN Raise("unsupported operand type(s) for -", m)
         ELSE Continue([m EXCEPT !.Revenue_Growth = Num(((r.a.v - r.b.v) * 100) \div r.b.v)])
  ELSE Continue(m)

\* Earnings block: a is all(actual >= estimate) over the four quarters.
EarningsStep(r, m) ==
  IF r.o = "throw" THEN Raise(r.e, m)
  ELSE IF r.o = "ok" THEN Continue([m EXCEPT !.EPS_Consistency = r.a])
  ELSE Continue(m)

\* Quote block: the pe entry.
QuoteStep(r, m) ==
  IF r.o = "throw" THEN Raise(r.e, m)
  ELSE IF r.o = "ok" THEN Continue([m EXCEPT !.Forward_PE = r.a])
  ELSE Continue(m)

\* Cash conversion cycle block: a is dio + dso - dpo.
CCCStep(r, m) ==
  IF r.o = "throw" THEN Raise(r.e, m)
  ELSE IF r.o = "ok" THEN Continue([m EXCEPT !.CCC = r.a])
  ELSE Continue(m)

StepCount == 5

FetchStep(i, resp, m) ==
  CASE i = 1 -> RatiosStep(resp[1], m)
    [] i = 2 -> IncomeStep(resp[2], m)
    [] i = 3 -> EarningsStep(resp[3], m)
    [] i = 4 -> QuoteStep(resp[4], m)
    [] OTHER -> CCCStep(resp[5], m)

RECURSIVE TryBody(_, _, _, _)
\* The try body from block i on; the except clause ends it at the first raise.
TryBody(i, symbol, resp, m) ==
  IF i > StepCount THEN [metrics |-> m, threwAt |-> 0]
  ELSE LET s == FetchStep(i, resp, m)
       IN IF s.threw
            THEN [metrics |-> [s.m EXCEPT !.error = ErrorMessage(symbol, s.e)], threwAt |-> i]
            ELSE TryBody(i + 1, symbol, resp, s.m)

\* The returned dictionary, and the block whose exception was caught (0: none).
get_stock_data(symbol, resp) == TryBody(1, symbol, resp, InitialMetrics)

ExcTexts == {"", "timeout"}
Throws == {Throw(e) : e \in ExcTexts}
RatiosResponses ==
  Throws \cup {Skip} \cup {Ok(a, b) : a \in {None, Num(40), Num(41)}, b \in {None, Num(10), Num(11)}}
IncomeResponses ==
  Throws \cup {Skip} \cup {Ok(a, b) : a \in {None, Num(100), Num(110), Num(120)},
                                       b \in {None, Num(0), Num(100)}}
EarningsResponses == Throws \cup {Skip} \cup {Ok(Bool(t), None) : t \in BOOLEAN}
QuoteResponses == Throws \cup {Skip} \cup {Ok(a, None) : a \in {None, Num(19), Num(20), Str}}
CCCResponses == Throws \cup {Skip} \cup {Ok(Num(n), None) : n \in {29, 30}}
Responses ==
  {<<r1, r2, r3, r4, r5>> : r1 \in RatiosResponses, r2 \in IncomeResponses,
     r3 \in EarningsResponses, r4 \in QuoteResponses, r5 \in CCCResponses}
Tickers == {"AAPL", ""}

----------------------------------------------------------------------------
\* compute_ips, in units of 1/4000 (weights 0.4, 0.2, 0.1 over divisors 40, 100, 20)

Max(a, b) == IF a >= b THEN a ELSE b
Min(a, b) == IF a <= b THEN a ELSE b

\* clamp01(n / d) as a numerator over d: max(0, min(1, x)).
clamp01(n, d) == Max(0, Min(d, n))

\* A missing field reads as 0.
Get(m, key) == IF m[key].k = "num" THEN m[key].v ELSE 0

comp_R40(m) == Get(m, "R40") * 1600
comp_GPM_From40(m) == clamp01(Get(m, "GPM") - 40, 40) * 20
comp_GPM(m) == clamp01(Get(m, "GPM") - 60, 40) * 20
comp_ROIC(m) == clamp01(Get(m, "ROIC") - 10, 40) * 20
comp_CCC(m) == clamp01(Get(m, "CCC"), 100) * 4
comp_EPS(m) == Get(m, "EPS_cons") * 400
comp_PE(m) == clamp01(Get(m, "PE") - 20, 20) * 20

compute_ips(m) ==
  comp_R40(m) + comp_GPM(m) + comp_ROIC(m) - comp_CCC(m) + comp_EPS(m) - comp_PE(m)

Around(c) == {Missing} \cup {Num(n) : n \in (c - Spread)..(c + Spread)}
IPSRecords ==
  [R40 : Around(0), GPM : Around(60), ROIC : Around(10), CCC : Around(0),
   EPS_cons : {Missing, Num(0), Num(1)}, PE : Around(20)]
NoIPS == [R40 |-> Missing, GPM |-> Missing, ROIC |-> Missing, CCC |-> Missing,
          EPS_cons |-> Missing, PE |-> Missing]

----------------------------------------------------------------------------
\* Specifications

GradeIdle == metrics = InitialMetrics /\ result = NoResult /\ calls = 0
NoResponse == <<Skip, Skip, Skip, Skip, Skip>>
MainIdle ==
  /\ stock_metrics = InitialMetrics /\ display = "none" /\ main_result = NoResult
  /\ threw = 0 /\ last_resp = NoResponse
IPSIdle == ips_in = NoIPS /\ ips_out = [computed |-> FALSE, IPS |-> 0]

\* Grading: any metrics record, not yet graded.
Init ==
  /\ metrics \in MetricsRecords
  /\ result = NoResult
  /\ calls = 0
  /\ MainIdle
  /\ IPSIdle

CallGradeDefaulting ==
  /\ calls < MaxCalls
  /\ metrics' = [f \in FieldSet |-> IF metrics[f].k = "none" THEN Num(0) ELSE metrics[f]]
  /\ result' = get_ips_grade(metrics')
  /\ calls' = calls + 1
  /\ UNCHANGED <<mainVars, ipsVars>>
\* One call get_ips_grade(metrics): the function assigns only its locals.
CallGrade ==
  /\ calls < MaxCalls
  /\ result' = get_ips_grade(metrics)
  /\ calls' = calls + 1
  /\ UNCHANGED <<metrics, mainVars, ipsVars>>

Next == CallGrade

Spec == Init /\ [][Next]_vars

\* A request: the page before the form is submitted.
InitMain == GradeIdle /\ MainIdle /\ IPSIdle

\* main with the form submitted: fetch, then show the error or the grade.
Submit ==
  /\ display = "none"
  /\ \E ticker \in Tickers, resp \in Responses :
       LET sd == get_stock_data(ticker, resp)
       IN /\ stock_metrics' = sd.metrics
          /\ threw' = sd.threwAt
          /\ last_resp' = resp
          /\ IF Truthy(sd.metrics.error)
               THEN display' = "error" /\ main_result' = NoResult
               ELSE LET g == get_ips_grade(sd.metrics)
                    IN /\ main_result' = g
                       /\ display' = IF g.exc = "none" THEN "grade" ELSE "uncaught"
  /\ UNCHANGED <<gradeVars, ipsVars>>

\* The script reruns without a submission: nothing of the last request is kept.
Rerun ==
  /\ display # "none"
  /\ stock_metrics' = InitialMetrics /\ display' = "none"
  /\ main_result' = NoResult /\ threw' = 0 /\ last_resp' = NoResponse
  /\ UNCHANGED <<gradeVars, ipsVars>>

NextMain == Submit \/ Rerun

SpecMain == InitMain /\ [][NextMain]_vars

\* The continuous formula: any record, not yet scored.
InitIPS ==
  /\ GradeIdle /\ MainIdle
  /\ ips_in \in IPSRecords
  /\ ips_out = [computed |-> FALSE, IPS |-> 0]

CallComputeIPS ==
  /\ ~ips_out.computed
  /\ ips_out' = [computed |-> TRUE, IPS |-> compute_ips(ips_in)]
  /\ UNCHANGED <<ips_in, gradeVars, mainVars>>

NextIPS == CallComputeIPS

SpecIPS == InitIPS /\ [][NextIPS]_vars

----------------------------------------------------------------------------
\* Properties

Graded == calls >= 1

\* The data model's records: numeric fields hold a number or None, and
\* EPS_Consistency holds some value or None; no key is missing.
WellFormed(m) ==
  /\ \A f \in NumericFields : m[f].k \in {"none", "num"}
  /\ m["EPS_Consistency"].k # "missing"

\* The pass conditions as the specification states them.
Meets(f, x) ==
  CASE f = "GPM" -> x.k = "num" /\ x.v > 40
    [] f = "ROIC" -> x.k = "num" /\ x.v > 10
    [] f = "Revenue_Growth" -> x.k = "num" /\ x.v > 10
    [] f = "EPS_Consistency" -> x = Bool(TRUE)
    [] f = "Forward_PE" -> x.k = "num" /\ x.v < 20
    [] OTHER -> x.k = "num" /\ x.v < 30
Passing(m) == {f \in FieldSet : m[f] # None /\ Meets(f, m[f])}
Absent(m) == {f \in FieldSet : m[f] = None}
Failing(m) == FieldSet \ (Passing(m) \cup Absent(m))

\* C1: on a record of six values-or-None the returned score is the number
\* of criteria that pass (metric present and strictly beyond its threshold),
\* an integer in 0..6.
C1_ScoreCountsPassing ==
  (Graded /\ WellFormed(metrics)) =>
     /\ result.exc = "none"
     /\ result.score = Cardinality(Passing(metrics))
     /\ result.score \in 0..6

C1_Witness ==
  /\ Graded /\ WellFormed(metrics)
  /\ metrics.GPM = Num(40) /\ metrics.Forward_PE = Num(20) /\ metrics.CCC = Num(30)
  /\ metrics.ROIC = Num(11)
  /\ result.score = 1

GradeTable(s) ==
  CASE s \in {5, 6} -> "A (Strong Buy)"
    [] s \in {3, 4} -> "B (Consider Buy)"
    [] s \in {1, 2} -> "C (Hold)"
    [] OTHER -> "D (Sell)"
Rank(g) ==
  CASE g = "A (Strong Buy)" -> 3
    [] g = "B (Consider Buy)" -> 2
    [] g = "C (Hold)" -> 1
    [] g = "D (Sell)" -> 0
    [] OTHER -> -1

\* C2: the returned grade is fixed by the returned score (5-6 A, 3-4 B,
\* 1-2 C, 0 D), is one of the four strings, and no lower score maps to a
\* better grade nor a higher score to a worse one.
C2_GradeFromScore ==
  (Graded /\ result.exc = "none") =>
     /\ result.grade = GradeTable(result.score)
     /\ result.grade \in {"A (Strong Buy)", "B (Consider Buy)", "C (Hold)", "D (Sell)"}
     /\ \A s \in 0..6 :
          /\ s <= result.score => Rank(GradeOf(s)) <= Rank(result.grade)
          /\ s >= result.score => Rank(GradeOf(s)) >= Rank(result.grade)

C2_Witness == Graded /\ result.exc = "none" /\ result.score = 5 /\ result.grade = "A (Strong Buy)"

\* C3: every criterion gets one reason in one of three states: warning iff
\* the metric is None, check iff present and meeting its condition, cross
\* iff present and not meeting it.
C3_ThreeStateReasons ==
  (Graded /\ WellFormed(metrics)) =>
     \A f \in FieldSet :
        LET r == result.reasons[f]
        IN /\ r.mark \in {"check", "cross", "warning"}
           /\ r.mark = "warning" <=> f \in Absent(metrics)
           /\ r.mark = "check" <=> f \in Passing(metrics)
           /\ r.mark = "cross" <=> f \in Failing(metrics)
           /\ r.text = (CASE r.mark = "check" -> PassText(f)
                          [] r.mark = "cross" -> FailText(f)
                          [] OTHER -> UnknownText(f))

C3_Witness ==
  /\ Graded /\ WellFormed(metrics)
  /\ result.reasons["GPM"].mark = "warning"
  /\ result.reasons["ROIC"].mark = "cross"
  /\ result.reasons["CCC"].mark = "check"

\* Present values of a field that do not meet its condition.
FailingSamples(f) == {x \in Samples(f) : x.k \notin {"none", "missing", "str"} /\ ~Meets(f, x)}

\* C4: swapping a present-but-failing metric for None, or None for a
\* present-but-failing value, changes neither score nor grade; two passing
\* and four absent criteria give score 2 and grade C (Hold).
C4_AbsentNeitherPassNorFail ==
  (Graded /\ WellFormed(metrics)) =>
     /\ \A f \in Failing(metrics) :
          LET g == get_ips_grade([metrics EXCEPT ![f] = None])
          IN g.exc = "none" /\ g.score = result.score /\ g.grade = result.grade
     /\ \A f \in Absent(metrics) : \A x \in FailingSamples(f) :
          LET g == get_ips_grade([metrics EXCEPT ![f] = x])
          IN g.exc = "none" /\ g.score = result.score /\ g.grade = result.grade
     /\ (Cardinality(Passing(metrics)) = 2 /\ Cardinality(Absent(metrics)) = 4) =>
          (result.score = 2 /\ result.grade = "C (Hold)")

C4_Witness ==
  /\ Graded /\ WellFormed(metrics)
  /\ Cardinality(Passing(metrics)) = 2 /\ Cardinality(Absent(metrics)) = 4
  /\ result.score = 2 /\ result.grade = "C (Hold)"

\* C5: six passing metrics give grade A (Strong Buy), score 6 and six pass
\* reasons; six None metrics give score 0, grade D (Sell) and six unknown
\* reasons, none of them the fail variant.
C5_Extremes ==
  Graded =>
     /\ Passing(metrics) = FieldSet =>
          /\ result.exc = "none" /\ result.grade = "A (Strong Buy)" /\ result.score = 6
          /\ \A f \in FieldSet : result.reasons[f].mark = "check"
     /\ Absent(metrics) = FieldSet =>
          /\ result.exc = "none" /\ result.grade = "D (Sell)" /\ result.score = 0
          /\ \A f \in FieldSet : result.reasons[f].mark = "warning"

C5_Witness == Graded /\ Passing(metrics) = FieldSet /\ result.score = 6

\* C6: no call raises: every record, also one with a key missing or a
\* non-numeric value, yields a (grade, reasons, score) result.
C6_NeverRaises == Graded => result.exc = "none"

\* C7: only the boolean True earns the EPS_Consistency point; any other
\* present value (1, 0, a string, False) adds no point and is reported with
\* the fail variant; only None is reported unknown.
C7_EPSExactlyTrue ==
  (Graded /\ WellFormed(metrics)) =>
     LET x == metrics["EPS_Consistency"]
         r == result.reasons["EPS_Consistency"]
         others == Cardinality(Passing(metrics) \ {"EPS_Consistency"})
     IN /\ r.mark = "check" <=> x = Bool(TRUE)
        /\ r.mark = "warning" <=> x = None
        /\ x \notin {Bool(TRUE), None} => (r.mark = "cross" /\ result.score = others)
        /\ x = Bool(TRUE) => result.score = others + 1

C7_Witness ==
  /\ Graded /\ WellFormed(metrics)
  /\ metrics["EPS_Consistency"] = IntV(1)
  /\ result.reasons["EPS_Consistency"].mark = "cross"

LowerBoundary ==
  [R40 |-> Num(0), GPM |-> Num(60), ROIC |-> Num(10), CCC |-> Num(0),
   EPS_cons |-> Num(0), PE |-> Num(20)]

\* C9: compute_ips is exactly 0 on the record with every field at its lower
\* boundary, each term contributing 0.
C9_BoundaryIsZero ==
  (ips_out.computed /\ ips_in = LowerBoundary) =>
     /\ ips_out.IPS = 0
     /\ comp_R40(ips_in) = 0 /\ comp_GPM(ips_in) = 0 /\ comp_ROIC(ips_in) = 0
     /\ comp_CCC(ips_in) = 0 /\ comp_EPS(ips_in) = 0 /\ comp_PE(ips_in) = 0

C9_Witness == ips_out.computed /\ ips_in = LowerBoundary

\* The block that assigns each metric.
BlockOf(f) ==
  CASE f \in {"GPM", "ROIC"} -> 1
    [] f = "Revenue_Growth" -> 2
    [] f = "EPS_Consistency" -> 3
    [] f = "Forward_PE" -> 4
    [] OTHER -> 5

\* C10: when a block of get_stock_data throws, the returned record carries
\* a non-empty error, keeps the metrics of the earlier blocks and has None
\* for the later ones, and main shows the error without grading; a grade is
\* computed only after a fetch in which nothing threw.
C10_GradeOnlyAfterCleanFetch ==
  /\ threw # 0 =>
       /\ Truthy(stock_metrics.error)
       /\ display = "error" /\ main_result = NoResult
       /\ \A f \in FieldSet : BlockOf(f) >= threw => stock_metrics[f] = None
       /\ (threw > 1 /\ last_resp[1].o = "ok") =>
            (stock_metrics.GPM = last_resp[1].a /\ stock_metrics.ROIC = last_resp[1].b)
       /\ (threw > 3 /\ last_resp[3].o = "ok") => stock_metrics.EPS_Consistency = last_resp[3].a
       /\ (threw > 4 /\ last_resp[4].o = "ok") => stock_metrics.Forward_PE = last_resp[4].a
  /\ display \in {"grade", "uncaught"} =>
       (threw = 0 /\ stock_metrics.error = NoError /\ main_result = get_ips_grade(stock_metrics))
  /\ display = "none" => main_result = NoResult
  /\ main_result # NoResult => threw = 0

C10_Witness ==
  /\ threw = 3 /\ display = "error" /\ main_result = NoResult
  /\ stock_metrics.GPM = Num(41) /\ stock_metrics.Revenue_Growth = Num(20)
  /\ stock_metrics.Forward_PE = None
====
